---------------------------- MODULE Spec2Model ----------------------------
(***************************************************************************)
(* A model of tensorflow/python/training/tracking/graph_view.py: the       *)
(* breadth-first traversal of a graph of Trackable objects, the naming of  *)
(* the objects and of their slot variables, and the construction of the    *)
(* TrackableObjectGraph proto and of the SaveableObjects.                  *)
(*                                                                         *)
(* Python strings are sequences of one-character strings, so that          *)
(* str.replace, "/".join, "+" and the "in" substring test are computed     *)
(* character by character.  Objects are opaque handles compared by         *)
(* identity (ObjectIdentityDictionary); node ids are naturals from 0.      *)
(***************************************************************************)
EXTENDS Integers, Sequences, FiniteSets, TLC

VARIABLES
  \* ---- the objects the view looks at (the environment of one save) ----
  deps,            \* obj -> obj._checkpoint_dependencies, a list of edges
  attached,        \* self._attached_dependencies (<<>> when None or empty)
  slot_names,      \* optimizer -> optimizer.get_slot_names()
  slot_table,      \* <<optimizer, variable, slot name>> -> slot variable
  attrs,           \* obj -> its gathered saveable factories, in dict order
  saveables_cache, \* self._saveables_cache: None or obj -> name -> saveables
  \* ---- the locals and results of serialize_object_graph ----
  pc,
  to_visit, bfs_sorted, path_to_root,
  trackable_objects, node_ids, object_names, slot_variables,
  object_graph_proto, named_saveable_objects, feed_additions,
  err,
  \* ---- bookkeeping of the calls made on collaborators ----
  next_id,         \* identity given to the next SaveableObject created
  factory_calls,   \* create_saveables_from_factory calls of the current pass
  feed_calls,      \* feed_dict_additions calls of the current pass
  saves,           \* serialize_object_graph calls the caller has yet to make
  previous,        \* what the call before the current one returned
  \* ---- the argument and the result of _object_prefix_from_path ----
  name_path, prefix

vars == << deps, attached, slot_names, slot_table, attrs, saveables_cache, pc,
           to_visit, bfs_sorted, path_to_root, trackable_objects, node_ids,
           object_names, slot_variables, object_graph_proto,
           named_saveable_objects, feed_additions, err, next_id,
           factory_calls, feed_calls, saves, previous,
           name_path, prefix >>

None == "None"

-----------------------------------------------------------------------------
(* Strings *)

\* s.replace(ch, rep) for a one-character pattern ch
Replace(s, ch, rep) ==
  LET RECURSIVE go(_)
      go(i) == IF i > Len(s) THEN <<>>
               ELSE (IF s[i] = ch THEN rep ELSE <<s[i]>>) \o go(i + 1)
  IN go(1)

\* sep.join(parts)
Join(sep, parts) ==
  LET RECURSIVE go(_)
      go(i) == IF i > Len(parts) THEN <<>>
               ELSE IF i = Len(parts) THEN parts[i]
               ELSE parts[i] \o sep \o go(i + 1)
  IN go(1)

\* sub in s
Contains(sub, s) ==
  \E i \in 0..(Len(s) - Len(sub)) : SubSeq(s, i + 1, i + Len(sub)) = sub

ESCAPE_CHAR == "."

OPTIMIZER_SLOTS_NAME ==
  <<ESCAPE_CHAR>> \o <<"O","P","T","I","M","I","Z","E","R","_","S","L","O","T">>

OBJECT_ATTRIBUTES_NAME ==
  <<ESCAPE_CHAR>> \o <<"A","T","T","R","I","B","U","T","E","S">>

\* A mutant of escape_local_name: the escape character itself is not doubled.
escape_local_name_no_doubling(name) ==
  Replace(name, "/", <<ESCAPE_CHAR, "S">>)

escape_local_name(name) ==
  Replace(Replace(name, ESCAPE_CHAR, <<ESCAPE_CHAR, ESCAPE_CHAR>>),
          "/", <<ESCAPE_CHAR, "S">>)

\* path_to_root is a tuple of TrackableReference(name, ref)
object_prefix_from_path(path) ==
  Join(<<"/">>, [i \in 1..Len(path) |-> escape_local_name(path[i].name)])

-----------------------------------------------------------------------------
(* The objects *)

Objs == {"r", "a", "b", "c"}

\* self.root: the root reference, dereferenced
root == "r"

Range(s) == {s[i] : i \in 1..Len(s)}

\* base.TrackableReference(name, ref)
TrackableReference(name, ref) == [name |-> name, ref |-> ref]

\* A mutant of list_dependencies: the attached dependencies are appended to
\* the root's own list in place (no dependencies.copy()).
list_dependencies_in_place(d, obj) ==
  IF obj = root /\ attached # <<>>
  THEN [ret |-> d[obj] \o attached,
        deps |-> [d EXCEPT ![obj] = d[obj] \o attached]]
  ELSE [ret |-> d[obj], deps |-> d]

\* A mutant of list_dependencies: the attached dependencies are left out.
list_dependencies_own_only(d, obj) ==
  [ret |-> d[obj], deps |-> d]

\* ObjectGraphView.list_dependencies(obj), with d the objects'
\* _checkpoint_dependencies when it is called: .ret is what it returns and
\* .deps what the objects' lists are when it has returned.
list_dependencies(d, obj) ==
  IF obj = root /\ attached # <<>>
  THEN [ret |-> d[obj] \o attached, deps |-> d]
  ELSE [ret |-> d[obj], deps |-> d]

-----------------------------------------------------------------------------
(* _breadth_first_traversal *)

\* A mutant of visit_dependency: a later discovery overwrites the path.
visit_dependency_last_wins(st, current_trackable, dependency) ==
  IF dependency.ref \notin DOMAIN st.path
  THEN [path  |-> (dependency.ref :>
                     (st.path[current_trackable] \o <<dependency>>)) @@ st.path,
        queue |-> Append(st.queue, dependency.ref)]
  ELSE [path  |-> (dependency.ref :>
                     (st.path[current_trackable] \o <<dependency>>)) @@ st.path,
        queue |-> st.queue]

\* A mutant of visit_dependency: the membership test is dropped.
visit_dependency_no_test(st, current_trackable, dependency) ==
  [path  |-> (dependency.ref :>
                (st.path[current_trackable] \o <<dependency>>)) @@ st.path,
   queue |-> Append(st.queue, dependency.ref)]

\* The body of the for loop over the dependencies of current_trackable:
\* st.path is path_to_root and st.queue is to_visit.
visit_dependency(st, current_trackable, dependency) ==
  IF dependency.ref \notin DOMAIN st.path
  THEN [path  |-> (dependency.ref :>
                     (st.path[current_trackable] \o <<dependency>>)) @@ st.path,
        queue |-> Append(st.queue, dependency.ref)]
  ELSE st

\* The for loop over list_dependencies(current_trackable), from the i-th on
RECURSIVE visit_dependencies(_, _, _, _)
visit_dependencies(st, current_trackable, dependencies, i) ==
  IF i > Len(dependencies) THEN st
  ELSE visit_dependencies(
         visit_dependency(st, current_trackable, dependencies[i]),
         current_trackable, dependencies, i + 1)

-----------------------------------------------------------------------------
(* _serialize_slot_variables *)

\* "_create_or_restore_slot_variable" in dir(trackable)
is_optimizer(trackable) == trackable \in DOMAIN slot_names

\* trackable.get_slot(original_variable, slot_name); a KeyError or an
\* AttributeError gives None
get_slot(trackable, original_variable, slot_name) ==
  IF <<trackable, original_variable, slot_name>> \in DOMAIN slot_table
  THEN slot_table[<<trackable, original_variable, slot_name>>]
  ELSE None

\* A mutant of name_slot_variable: the slot name is not escaped.
name_slot_variable_unescaped(optimizer_path, variable_path, slot_name) ==
  variable_path \o <<"/">> \o OPTIMIZER_SLOTS_NAME \o <<"/">>
    \o optimizer_path \o <<"/">> \o slot_name

\* _slot_variable_naming_for_optimizer(optimizer_path)(variable_path, slot_name)
name_slot_variable(optimizer_path, variable_path, slot_name) ==
  LET optimizer_identifier ==
        <<"/">> \o OPTIMIZER_SLOTS_NAME \o <<"/">> \o optimizer_path \o <<"/">>
  IN variable_path \o optimizer_identifier \o escape_local_name(slot_name)

\* SlotVariableReference(slot_name, original_variable_node_id,
\*                       slot_variable_node_id)
SlotVariableReference(slot_name, original_id, slot_id) ==
  [slot_name |-> slot_name,
   original_variable_node_id |-> original_id,
   slot_variable_node_id |-> slot_id]

\* slot_variables.setdefault(trackable, []).append(proto)
SetDefaultAppend(f, k, v) ==
  IF k \in DOMAIN f THEN [f EXCEPT ![k] = Append(@, v)] ELSE (k :> <<v>>) @@ f

\* The slot variable is appended: lines 130-144.
register_slot_variable(st, trackable, slot_name, original_variable_node_id, original_variable, slot_variable) ==
  LET checkpoint_name ==
        name_slot_variable(st.object_names[trackable],
                           st.object_names[original_variable], slot_name)
      slot_variable_node_id == Len(st.trackable_objects)
  IN [st EXCEPT
        !.object_names = (slot_variable :> checkpoint_name) @@ @,
        !.node_ids = (slot_variable :> slot_variable_node_id) @@ @,
        !.trackable_objects = Append(@, slot_variable),
        !.slot_variables =
           SetDefaultAppend(@, trackable,
             SlotVariableReference(slot_name, original_variable_node_id,
                                   slot_variable_node_id))]

\* A mutant of visit_slot: a slot variable that is already a node is appended
\* again instead of being rejected.
visit_slot_no_alias_check(st, d, trackable, slot_name, original_variable_node_id, original_variable) ==
  LET slot_variable == get_slot(trackable, original_variable, slot_name)
  IN IF st.err # None \/ slot_variable = None THEN st
     ELSE IF d[slot_variable] # <<>>
     THEN [st EXCEPT !.err = "UnsupportedSlotDependency"]
     ELSE register_slot_variable(st, trackable, slot_name,
                                 original_variable_node_id, original_variable,
                                 slot_variable)

\* A mutant of visit_slot: a slot variable with dependencies is accepted.
visit_slot_no_dependency_check(st, d, trackable, slot_name, original_variable_node_id, original_variable) ==
  LET slot_variable == get_slot(trackable, original_variable, slot_name)
  IN IF st.err # None \/ slot_variable = None THEN st
     ELSE IF slot_variable \in DOMAIN st.node_ids
     THEN [st EXCEPT !.err = "IllegalSlotAliasing"]
     ELSE register_slot_variable(st, trackable, slot_name,
                                 original_variable_node_id, original_variable,
                                 slot_variable)

\* The body of the innermost loop, lines 110-144; once an error is raised
\* nothing more is done.
visit_slot(st, d, trackable, slot_name, original_variable_node_id, original_variable) ==
  LET slot_variable == get_slot(trackable, original_variable, slot_name)
  IN IF st.err # None \/ slot_variable = None THEN st
     ELSE IF d[slot_variable] # <<>>
     THEN [st EXCEPT !.err = "UnsupportedSlotDependency"]
     ELSE IF slot_variable \in DOMAIN st.node_ids
     THEN [st EXCEPT !.err = "IllegalSlotAliasing"]
     ELSE register_slot_variable(st, trackable, slot_name,
                                 original_variable_node_id, original_variable,
                                 slot_variable)

\* for original_variable_node_id, original_variable in
\*     enumerate(non_slot_objects), from position i on
RECURSIVE visit_original_variables(_, _, _, _, _, _)
visit_original_variables(st, d, non_slot_objects, trackable, slot_name, i) ==
  IF i > Len(non_slot_objects) THEN st
  ELSE visit_original_variables(
         visit_slot(st, d, trackable, slot_name, i - 1, non_slot_objects[i]),
         d, non_slot_objects, trackable, slot_name, i + 1)

\* for slot_name in slot_names, from position j on
RECURSIVE visit_slot_names(_, _, _, _, _)
visit_slot_names(st, d, non_slot_objects, trackable, j) ==
  IF j > Len(slot_names[trackable]) THEN st
  ELSE visit_slot_names(
         visit_original_variables(st, d, non_slot_objects, trackable,
                                  slot_names[trackable][j], 1),
         d, non_slot_objects, trackable, j + 1)

\* for trackable in non_slot_objects, from position t on
RECURSIVE visit_optimizers(_, _, _, _)
visit_optimizers(st, d, non_slot_objects, t) ==
  IF t > Len(non_slot_objects) THEN st
  ELSE visit_optimizers(
         IF is_optimizer(non_slot_objects[t])
         THEN visit_slot_names(st, d, non_slot_objects, non_slot_objects[t], 1)
         ELSE st,
         d, non_slot_objects, t + 1)

\* _serialize_slot_variables(trackable_objects, node_ids, object_names): the
\* three arguments as it leaves them, the slot_variables it returns, and the
\* error it raised, if any.
serialize_slot_variables(d, objects, ids, names) ==
  visit_optimizers(
    [trackable_objects |-> objects, node_ids |-> ids, object_names |-> names,
     slot_variables |-> <<>>, err |-> None],
    d, objects, 1)

\* for node_id, node in enumerate(trackable_objects): node_ids[node] = node_id
RECURSIVE enumerate_node_ids(_, _, _)
enumerate_node_ids(ids, objects, i) ==
  IF i > Len(objects) THEN ids
  ELSE enumerate_node_ids(
         IF objects[i] \in DOMAIN ids THEN [ids EXCEPT ![objects[i]] = i - 1]
         ELSE (objects[i] :> (i - 1)) @@ ids,
         objects, i + 1)

-----------------------------------------------------------------------------
(* _fill_object_graph_proto *)

\* for child in self.list_dependencies(trackable): one ObjectReference each
children_of(dependencies, ids) ==
  [i \in 1..Len(dependencies) |->
     [node_id |-> ids[dependencies[i].ref],
      local_name |-> dependencies[i].name]]

\* A mutant of fill_node: a child that was already given an edge by this
\* node gets no second one.
fill_node_deduplicated(st, ids, slot_vars, checkpoint_id, trackable) ==
  LET ld == list_dependencies(st.deps, trackable)
      first == SelectSeq([i \in 1..Len(ld.ret) |-> i],
                 LAMBDA i : \A j \in 1..(i - 1) : ld.ret[j].ref # ld.ret[i].ref)
      kept == [k \in 1..Len(first) |-> ld.ret[first[k]]]
  IN IF st.err # None THEN st
     ELSE IF ids[trackable] # checkpoint_id
     THEN [st EXCEPT !.err = "NodeIdAssertion"]
     ELSE [st EXCEPT
             !.deps = ld.deps,
             !.nodes = Append(@,
                [slot_variables |-> IF trackable \in DOMAIN slot_vars
                                    THEN slot_vars[trackable] ELSE <<>>,
                 children |-> children_of(kept, ids),
                 attributes |-> <<>>])]

\* The body of the loop of _fill_object_graph_proto, lines 372-378.
fill_node(st, ids, slot_vars, checkpoint_id, trackable) ==
  LET ld == list_dependencies(st.deps, trackable)
  IN IF st.err # None THEN st
     ELSE IF ids[trackable] # checkpoint_id
     THEN [st EXCEPT !.err = "NodeIdAssertion"]
     ELSE IF \E i \in 1..Len(ld.ret) : ld.ret[i].ref \notin DOMAIN ids
     THEN [st EXCEPT !.err = "KeyError", !.deps = ld.deps]
     ELSE [st EXCEPT
             !.deps = ld.deps,
             !.nodes = Append(@,
                [slot_variables |-> IF trackable \in DOMAIN slot_vars
                                    THEN slot_vars[trackable] ELSE <<>>,
                 children |-> children_of(ld.ret, ids),
                 attributes |-> <<>>])]

\* for checkpoint_id, trackable in enumerate(trackable_objects), from i on
RECURSIVE fill_nodes(_, _, _, _, _)
fill_nodes(st, objects, ids, slot_vars, i) ==
  IF i > Len(objects) THEN st
  ELSE fill_nodes(fill_node(st, ids, slot_vars, i - 1, objects[i]),
                  objects, ids, slot_vars, i + 1)

\* _fill_object_graph_proto(trackable_objects, node_ids, slot_variables)
fill_object_graph_proto(d, objects, ids, slot_vars) ==
  fill_nodes([nodes |-> <<>>, deps |-> d, err |-> None],
             objects, ids, slot_vars, 1)

-----------------------------------------------------------------------------
(* get_checkpoint_factories_and_keys *)

\* "%s/%s/%s" % (object_name, _OBJECT_ATTRIBUTES_NAME, _escape_local_name(name))
checkpoint_key_of(object_name, name) ==
  object_name \o <<"/">> \o OBJECT_ATTRIBUTES_NAME \o <<"/">>
    \o escape_local_name(name)

\* _CheckpointFactoryData(factory, name, checkpoint_key) of each attribute
\* that _gather_saveables_for_checkpoint reports, in the dictionary's order
get_checkpoint_factories_and_keys(names) ==
  [trackable \in DOMAIN names |->
     [i \in 1..Len(attrs[trackable]) |->
        [factory |-> attrs[trackable][i].factory,
         name |-> attrs[trackable][i].name,
         checkpoint_key |->
           checkpoint_key_of(names[trackable], attrs[trackable][i].name)]]]

-----------------------------------------------------------------------------
(* _add_attributes_to_object_graph *)

\* saveable_object_util.create_saveables_from_factory(factory, key): the
\* SaveableObjects a factory builds, each a new object (id).  A factory is
\* the list of what it builds: a name that is the key followed by a suffix
\* (keyed) or a name of its own, and the SaveableObject's other attributes.
\* A SaveableObject is tagged with the key it was built for.
create_saveables_from_factory(factory, key, first_id) ==
  [i \in 1..Len(factory) |->
     [id |-> first_id + i - 1,
      key |-> key,
      name |-> IF factory[i].keyed THEN key \o factory[i].suffix
               ELSE factory[i].suffix,
      optional_restore |-> factory[i].optional_restore,
      python_state |-> factory[i].python_state,
      feed |-> factory[i].feed,
      full_name |-> factory[i].full_name,
      frozen |-> FALSE]]

\* PythonStateSaveable.freeze(): the state embedded as a constant
freeze(saveable) == [saveable EXCEPT !.frozen = TRUE, !.feed = <<>>]

\* A mutant of cached_saveables_valid: the cached SaveableObjects are never
\* checked against the key.
cached_saveables_valid_unchecked(key, saveables) == TRUE

\* A mutant of cached_saveables_valid: the cached SaveableObjects are never
\* taken.
cached_saveables_valid_never(key, saveables) == FALSE

\* Lines 309-315: no cached SaveableObject has a name without the key in it.
cached_saveables_valid(key, saveables) ==
  \A i \in 1..Len(saveables) : Contains(key, saveables[i].name)

\* A mutant of feed_conflict: the new feed keys are not looked up.
feed_conflict_unchecked(feed_dict, saveable_feed_dict) == FALSE

\* Lines 348-349: a key of the SaveableObject's feed is already fed.
feed_conflict(feed_dict, saveable_feed_dict) ==
  \E new_feed_key \in DOMAIN saveable_feed_dict :
     new_feed_key \in DOMAIN feed_dict

\* The body of the loop over the attribute's SaveableObjects, lines 330-356.
\* acc.st is the state of the call, acc.optional_restore the local of that
\* name (acc.optional_is_none: it is None) and acc.full_name the proto's.
use_saveable(acc, trackable, name, saveable) ==
  LET st == acc.st
      optional_restore ==
        IF acc.optional_is_none THEN saveable.optional_restore
        ELSE acc.optional_restore /\ saveable.optional_restore
      full_name ==
        IF saveable.full_name # <<>> THEN saveable.full_name ELSE acc.full_name
      called == Append(st.feed_calls,
                  [trackable |-> trackable, name |-> name,
                   saveable |-> saveable.id, keys |-> DOMAIN saveable.feed])
      acc1 == [acc EXCEPT !.optional_is_none = FALSE,
                          !.optional_restore = optional_restore,
                          !.full_name = full_name]
  IN IF st.err # None THEN acc
     ELSE IF ~saveable.python_state
     THEN [acc1 EXCEPT !.st.named = Append(@, saveable)]
     ELSE IF st.feed.is_none
     THEN [acc1 EXCEPT !.st.named = Append(@, freeze(saveable))]
     ELSE IF feed_conflict(st.feed.dict, saveable.feed)
     THEN [acc1 EXCEPT !.st.err = "FeedKeyCollision",
                       !.st.feed_calls = called]
     ELSE [acc1 EXCEPT !.st.feed.dict = saveable.feed @@ @,
                       !.st.feed_calls = called,
                       !.st.named = Append(@, saveable)]

RECURSIVE use_saveables(_, _, _, _, _)
use_saveables(acc, trackable, name, saveables, i) ==
  IF i > Len(saveables) THEN acc
  ELSE use_saveables(use_saveable(acc, trackable, name, saveables[i]),
                     trackable, name, saveables, i + 1)

Without(f, k) == [x \in (DOMAIN f) \ {k} |-> f[x]]

\* The body of the loop over the attributes of one node, lines 301-359.
add_attribute(st, trackable, checkpoint_id, factory_data) ==
  LET name == factory_data.name
      key == factory_data.checkpoint_key
      caching == ~st.cache.is_none
      cached_attributes == st.cache.dict[trackable]
      hit == caching /\ name \in DOMAIN cached_attributes
      reuse == hit /\ cached_saveables_valid(key, cached_attributes[name])
      created == create_saveables_from_factory(factory_data.factory, key,
                                               st.next_id)
      saveables == IF reuse THEN cached_attributes[name] ELSE created
      mismatch == ~reuse /\ \E i \in 1..Len(created) :
                               ~Contains(key, created[i].name)
      cache1 == IF reuse \/ ~caching THEN st.cache.dict
                ELSE IF mismatch
                THEN [st.cache.dict EXCEPT ![trackable] = Without(@, name)]
                ELSE [st.cache.dict EXCEPT ![trackable] =
                        (name :> created) @@ Without(@, name)]
      st1 == [st EXCEPT
                !.cache.dict = cache1,
                !.next_id = IF reuse THEN @ ELSE @ + Len(created),
                !.factory_calls =
                   IF reuse THEN @
                   ELSE Append(@, [trackable |-> trackable, name |-> name,
                                   key |-> key]),
                !.err = IF mismatch THEN "AdapterKeyMismatch" ELSE @]
      acc == use_saveables(
               [st |-> st1, optional_is_none |-> TRUE,
                optional_restore |-> FALSE, full_name |-> <<>>],
               trackable, name, saveables, 1)
      attribute == [name |-> name, checkpoint_key |-> key,
                    optional_restore |-> acc.optional_restore,
                    full_name |-> acc.full_name]
  IN IF st.err # None THEN st
     ELSE IF acc.st.err # None THEN acc.st
     ELSE [acc.st EXCEPT !.nodes[checkpoint_id + 1].attributes =
                            Append(@, attribute)]

RECURSIVE add_attributes(_, _, _, _, _)
add_attributes(st, trackable, checkpoint_id, factories, i) ==
  IF i > Len(factories) THEN st
  ELSE add_attributes(add_attribute(st, trackable, checkpoint_id, factories[i]),
                      trackable, checkpoint_id, factories, i + 1)

\* The body of the loop over the nodes, lines 295-300.
add_node_attributes(st, ids, factory_map, checkpoint_id, trackable) ==
  IF st.err # None THEN st
  ELSE IF ids[trackable] # checkpoint_id
  THEN [st EXCEPT !.err = "NodeIdAssertion"]
  ELSE add_attributes(
         IF st.cache.is_none \/ trackable \in DOMAIN st.cache.dict THEN st
         ELSE [st EXCEPT !.cache.dict = (trackable :> <<>>) @@ @],
         trackable, checkpoint_id, factory_map[trackable], 1)

\* for checkpoint_id, (trackable, object_proto) in
\*     enumerate(zip(trackable_objects, object_graph_proto.nodes)), from i on
RECURSIVE add_nodes_attributes(_, _, _, _, _)
add_nodes_attributes(st, objects, ids, factory_map, i) ==
  IF i > Len(objects) \/ i > Len(st.nodes) THEN st
  ELSE add_nodes_attributes(
         add_node_attributes(st, ids, factory_map, i - 1, objects[i]),
         objects, ids, factory_map, i + 1)

\* _add_attributes_to_object_graph(trackable_objects, object_graph_proto,
\* node_ids, object_names), the cache being `cache` and the next new
\* SaveableObject being the first_id-th.
add_attributes_to_object_graph(objects, nodes, ids, names, cache, first_id) ==
  add_nodes_attributes(
    [cache |-> cache, nodes |-> nodes, named |-> <<>>,
     feed |-> [is_none |-> cache.is_none, dict |-> <<>>],
     err |-> None, next_id |-> first_id,
     factory_calls |-> <<>>, feed_calls |-> <<>>],
    objects, ids, get_checkpoint_factories_and_keys(names), 1)

-----------------------------------------------------------------------------
(* The graphs, optimizers and attributes the view is run on *)

\* the largest number of dependency edges of a graph
MaxEdges == 3

\* the largest number of slot variables the optimizer holds
MaxSlots == 2

ObjSeq == <<"r", "a", "b", "c">>

\* The local name of an object's i-th dependency: names with the escape
\* character and the separator in them, all different.
LocalName(i) ==
  LET base == << <<"v">>, <<"o", "/">>, <<".", "S">> >>
      RECURSIVE times(_, _)
      times(x, n) == IF n = 0 THEN <<>> ELSE x \o times(x, n - 1)
  IN times(base[((i - 1) % 3) + 1], ((i - 1) \div 3) + 1)

RECURSIVE SumTo(_, _)
SumTo(l, i) == IF i = 0 THEN 0 ELSE l[i] + SumTo(l, i - 1)

\* The graph whose k-th object (of ObjSeq) has the next l[k] of the targets t
GraphOf(l, t) ==
  [o \in Objs |->
     LET k == CHOOSE k \in 1..Len(ObjSeq) : ObjSeq[k] = o
     IN [i \in 1..l[k] |->
           TrackableReference(LocalName(i), t[SumTo(l, k - 1) + i])]]

\* Every graph of n edges in all whose edges leave an object of `sources`
GraphsOfSize(n, sources) ==
  LET shapes == {l \in [1..Len(ObjSeq) -> 0..n] :
                   /\ SumTo(l, Len(ObjSeq)) = n
                   /\ \A k \in 1..Len(ObjSeq) :
                        l[k] > 0 => ObjSeq[k] \in sources}
  IN {GraphOf(l, t) : l \in shapes, t \in [1..n -> Objs]}

Graphs(max, sources) == UNION {GraphsOfSize(n, sources) : n \in 0..max}

\* self._attached_dependencies: none, or one reference
AttachedChoices ==
  {<<>>} \cup {<<TrackableReference(<<"x">>, o)>> : o \in {"b", "c"}}

SlotNameSeq == << <<"m">>, <<".", "/">> >>

\* the largest number of dependency edges of a graph with slot variables
MaxSlotEdges == 2

\* The optimizer "a" holding at most MaxSlots slot variables, for the
\* variables "r", "a" and "b": the object "c", or the root itself
SlotTables ==
  LET keys == {<<"a", o, SlotNameSeq[j]>> :
                 o \in {"r", "a", "b"}, j \in 1..Len(SlotNameSeq)}
  IN UNION {[ks -> {"r", "c"}] :
              ks \in {x \in SUBSET keys : Cardinality(x) <= MaxSlots}}

\* What a factory builds: one SaveableObject named by the key
PlainSaveable ==
  [keyed |-> TRUE, suffix |-> <<>>, optional_restore |-> FALSE,
   python_state |-> FALSE, feed |-> <<>>, full_name |-> <<>>]

\* Every object reports one attribute, "x"
PlainAttrs ==
  [o \in Objs |-> << [name |-> <<"x">>, factory |-> <<PlainSaveable>>] >>]

NoCache == [is_none |-> TRUE, dict |-> <<>>]

EmptyCache == [is_none |-> FALSE, dict |-> <<>>]

\* No call was made before
NoRun ==
  [done |-> FALSE, unchanged |-> FALSE, trackable_objects |-> <<>>,
   object_graph_proto |-> <<>>, named_saveable_objects |-> <<>>,
   saveables_cache |-> NoCache, next_id |-> 1]

\* The state of a view on which serialize_object_graph was not called yet
NotCalled ==
  /\ to_visit = <<>> /\ bfs_sorted = <<>> /\ path_to_root = <<>>
  /\ trackable_objects = <<>> /\ node_ids = <<>> /\ object_names = <<>>
  /\ slot_variables = <<>> /\ object_graph_proto = <<>>
  /\ named_saveable_objects = <<>> /\ feed_additions = NoCache
  /\ err = None
  /\ next_id = 1 /\ factory_calls = <<>> /\ feed_calls = <<>>
  /\ previous = NoRun

NoPaths ==
  /\ name_path = <<>> /\ prefix = <<>>

\* Graphs of every shape, with or without an attached dependency, with or
\* without one slot variable held by "a"
Init ==
  /\ deps \in Graphs(MaxEdges, Objs)
  /\ attached \in AttachedChoices
  /\ slot_names = ("a" :> <<SlotNameSeq[1]>>)
  /\ slot_table \in {<<>>, (<<"a", "r", SlotNameSeq[1]>> :> "c")}
  /\ attrs = PlainAttrs
  /\ saveables_cache = NoCache
  /\ saves = 1
  /\ pc = "init"
  /\ NotCalled /\ NoPaths

\* The optimizer "a" with up to MaxSlots slot variables, on the graphs of up
\* to MaxSlotEdges edges that leave the root or the object "c"
InitSlots ==
  /\ deps \in Graphs(MaxSlotEdges, {"r", "c"})
  /\ attached = <<>>
  /\ slot_names = ("a" :> SlotNameSeq)
  /\ slot_table \in SlotTables
  /\ attrs = PlainAttrs
  /\ saveables_cache = NoCache
  /\ saves = 1
  /\ pc = "init"
  /\ NotCalled /\ NoPaths

\* the number of serialize_object_graph calls made on one view
MaxSaves == 2

\* the largest number of attributes the objects report in all
MaxAttrs == 3

\* Two SaveableObjects, named by the key and a suffix; one may be skipped by
\* a restore
PairSaveables ==
  << [keyed |-> TRUE, suffix |-> <<"_", "0">>, optional_restore |-> TRUE,
      python_state |-> FALSE, feed |-> <<>>, full_name |-> <<"f">>],
     [keyed |-> TRUE, suffix |-> <<"_", "1">>, optional_restore |-> FALSE,
      python_state |-> FALSE, feed |-> <<>>, full_name |-> <<>>] >>

\* A PythonStateSaveable that feeds a value for each of the keys
FedSaveable(keys) ==
  [keyed |-> TRUE, suffix |-> <<>>, optional_restore |-> FALSE,
   python_state |-> TRUE, feed |-> [k \in keys |-> "state"],
   full_name |-> <<>>]

\* A SaveableObject whose name is not made from the key
MisnamedSaveable ==
  [keyed |-> FALSE, suffix |-> <<"z">>, optional_restore |-> FALSE,
   python_state |-> FALSE, feed |-> <<>>, full_name |-> <<>>]

AttrName(i) == <<<<"x">>, <<"y">>, <<"/">>, <<"x", "x">>>>[((i - 1) % 4) + 1]

\* The attributes of an object whose factories are fs, in this order
AttrsOf(fs) == [i \in 1..Len(fs) |-> [name |-> AttrName(i), factory |-> fs[i]]]

\* The local names under which the root tracks its dependencies when it is
\* saved again and again
ResaveNames == {<<"v">>, <<"v", "v">>, <<"w">>}

\* The root tracks "a" and then perhaps "a" or "b" again, under different
\* names
ResaveGraphs ==
  {[o \in Objs |-> IF o = root THEN d ELSE <<>>] :
     d \in {<<TrackableReference(n, "a")>> : n \in ResaveNames}
           \cup {<<TrackableReference(p[1], "a"), TrackableReference(p[2], o)>> :
                   p \in {q \in ResaveNames \X ResaveNames : q[1] # q[2]},
                   o \in {"a", "b"}}}

ResaveFactories ==
  {<<PlainSaveable>>, PairSaveables, <<>>, <<FedSaveable({"t1"})>>}

\* A view with a cache (or none) that is asked MaxSaves times to serialize
\* a root with an attribute, "a" with up to two and "b" with up to one
InitResave ==
  /\ deps \in ResaveGraphs
  /\ attached = <<>>
  /\ slot_names = <<>>
  /\ slot_table = <<>>
  /\ attrs \in {[o \in Objs |-> CASE o = "a" -> fa [] o = "b" -> fb
                                  [] OTHER -> AttrsOf(<<<<PlainSaveable>>>>)] :
                  fa \in {<<>>} \cup {AttrsOf(<<f>>) : f \in ResaveFactories}
                        \cup {AttrsOf(<<<<PlainSaveable>>, f>>) :
                                f \in ResaveFactories},
                  fb \in {<<>>, AttrsOf(<<<<PlainSaveable>>>>),
                          AttrsOf(<<<<FedSaveable({"t2"})>>>>)}}
  /\ saveables_cache \in {NoCache, EmptyCache}
  /\ saves = MaxSaves
  /\ pc = "init"
  /\ NotCalled /\ NoPaths

FeedFactories ==
  {<<PlainSaveable>>, <<FedSaveable({"t1"})>>, <<FedSaveable({"t2"})>>,
   <<FedSaveable({"t1", "t2"})>>, <<FedSaveable({"t1"}), FedSaveable({"t1"})>>,
   <<MisnamedSaveable>>}

\* l[k] factories for the k-th object, for every l of sum n
FactoryLists(n) ==
  LET shapes == {l \in [1..3 -> 0..n] : SumTo(l, 3) = n}
  IN {[o \in Objs |->
         LET k == CHOOSE k \in 1..Len(ObjSeq) : ObjSeq[k] = o
         IN IF k > 3 THEN <<>>
            ELSE AttrsOf([i \in 1..l[k] |-> t[SumTo(l, k - 1) + i]])] :
        l \in shapes, t \in [1..n -> FeedFactories]}

\* A root that tracks "a" and "b"; the three report MaxAttrs attributes at
\* most, whose SaveableObjects may feed values; with a cache or none
InitFeeds ==
  /\ deps = GraphOf(<<2, 0, 0, 0>>, <<"a", "b">>)
  /\ attached = <<>>
  /\ slot_names = <<>>
  /\ slot_table = <<>>
  /\ attrs \in UNION {FactoryLists(n) : n \in 0..MaxAttrs}
  /\ saveables_cache \in {NoCache, EmptyCache}
  /\ saves = 1
  /\ pc = "init"
  /\ NotCalled /\ NoPaths

-----------------------------------------------------------------------------
(* serialize_object_graph, step by step *)

\* _breadth_first_traversal up to its loop, lines 264-267
BreadthFirstTraversalStart ==
  /\ pc \in {"init", "done", "changed"} /\ saves > 0
  /\ saves' = saves - 1
  /\ previous' = [done |-> pc # "init", unchanged |-> pc = "done",
                  trackable_objects |-> trackable_objects,
                  object_graph_proto |-> object_graph_proto,
                  named_saveable_objects |-> named_saveable_objects,
                  saveables_cache |-> saveables_cache,
                  next_id |-> next_id]
  /\ pc' = "bfs"
  /\ bfs_sorted' = <<>>
  /\ to_visit' = <<root>>
  /\ path_to_root' = (root :> <<>>)
  /\ trackable_objects' = <<>> /\ node_ids' = <<>> /\ object_names' = <<>>
  /\ slot_variables' = <<>> /\ object_graph_proto' = <<>>
  /\ named_saveable_objects' = <<>> /\ feed_additions' = NoCache
  /\ factory_calls' = <<>> /\ feed_calls' = <<>>
  /\ UNCHANGED << deps, attached, slot_names, slot_table, attrs,
                  saveables_cache, err, next_id, name_path, prefix >>

\* One turn of the while loop of _breadth_first_traversal, lines 268-276
BreadthFirstTraversalStep ==
  /\ pc = "bfs" /\ to_visit # <<>>
  /\ LET current_trackable == Head(to_visit)
         ld == list_dependencies(deps, current_trackable)
         st == visit_dependencies(
                 [path |-> path_to_root, queue |-> Tail(to_visit)],
                 current_trackable, ld.ret, 1)
     IN /\ bfs_sorted' = Append(bfs_sorted, current_trackable)
        /\ path_to_root' = st.path
        /\ to_visit' = st.queue
        /\ deps' = ld.deps
  /\ UNCHANGED << attached, slot_names, slot_table, attrs, saveables_cache, pc,
                  trackable_objects, node_ids, object_names, slot_variables,
                  object_graph_proto, named_saveable_objects, feed_additions,
                  err, next_id, factory_calls, feed_calls, saves, previous,
                  name_path, prefix >>

\* objects_ids_and_slot_variables_and_paths once the traversal has returned,
\* lines 441-452
ObjectsIdsAndSlotVariablesAndPaths ==
  /\ pc = "bfs" /\ to_visit = <<>>
  /\ LET names == [obj \in DOMAIN path_to_root |->
                     object_prefix_from_path(path_to_root[obj])]
         ids == enumerate_node_ids(<<>>, bfs_sorted, 1)
         st == serialize_slot_variables(deps, bfs_sorted, ids, names)
     IN IF st.err # None
        THEN /\ pc' = "error" /\ err' = st.err
             /\ UNCHANGED << trackable_objects, node_ids, object_names,
                             slot_variables >>
        ELSE /\ pc' = "named" /\ err' = err
             /\ trackable_objects' = st.trackable_objects
             /\ node_ids' = st.node_ids
             /\ object_names' = st.object_names
             /\ slot_variables' = st.slot_variables
  /\ UNCHANGED << deps, attached, slot_names, slot_table, attrs,
                  saveables_cache, to_visit, bfs_sorted, path_to_root,
                  object_graph_proto, named_saveable_objects, feed_additions,
                  next_id, factory_calls, feed_calls, saves, previous,
                  name_path, prefix >>

\* _fill_object_graph_proto, lines 368-379
FillObjectGraphProto ==
  /\ pc = "named"
  /\ LET st == fill_object_graph_proto(deps, trackable_objects, node_ids,
                                       slot_variables)
     IN /\ deps' = st.deps
        /\ IF st.err # None
           THEN /\ pc' = "error" /\ err' = st.err
                /\ UNCHANGED object_graph_proto
           ELSE /\ pc' = "filled" /\ err' = err
                /\ object_graph_proto' = st.nodes
  /\ UNCHANGED << attached, slot_names, slot_table, attrs, saveables_cache,
                  to_visit, bfs_sorted, path_to_root, trackable_objects,
                  node_ids, object_names, slot_variables,
                  named_saveable_objects, feed_additions, next_id,
                  factory_calls, feed_calls, saves, previous,
                  name_path, prefix >>

\* _add_attributes_to_object_graph and the return of serialize_object_graph,
\* lines 282-361 and 414.  The cache is the caller's: what was put in it
\* before an error stays in it.
AddAttributesToObjectGraph ==
  /\ pc = "filled"
  /\ LET st == add_attributes_to_object_graph(
                 trackable_objects, object_graph_proto, node_ids,
                 object_names, saveables_cache, next_id)
     IN /\ saveables_cache' = st.cache
        /\ next_id' = st.next_id
        /\ factory_calls' = st.factory_calls
        /\ feed_calls' = st.feed_calls
        /\ IF st.err # None
           THEN /\ pc' = "error" /\ err' = st.err
                /\ object_graph_proto' = <<>>
                /\ UNCHANGED << named_saveable_objects, feed_additions >>
           ELSE /\ pc' = "done" /\ err' = err
                /\ object_graph_proto' = st.nodes
                /\ named_saveable_objects' = st.named
                /\ feed_additions' = st.feed
  /\ UNCHANGED << deps, attached, slot_names, slot_table, attrs,
                  to_visit, bfs_sorted, path_to_root, trackable_objects,
                  node_ids, object_names, slot_variables, saves, previous,
                  name_path, prefix >>

Next ==
  \/ BreadthFirstTraversalStart
  \/ BreadthFirstTraversalStep
  \/ ObjectsIdsAndSlotVariablesAndPaths
  \/ FillObjectGraphProto
  \/ AddAttributesToObjectGraph

Spec == Init /\ [][Next]_vars

SpecSlots == InitSlots /\ [][Next]_vars

SpecFeeds == InitFeeds /\ [][Next]_vars

\* Between two calls the root's i-th dependency is tracked under another
\* name, which list_dependencies reads at the next call, line 220.
TrackDependency ==
  /\ pc = "done" /\ saves > 0
  /\ \E i \in 1..Len(deps[root]) :
       \E name \in ResaveNames \ {deps[root][j].name : j \in 1..Len(deps[root])} :
          deps' = [deps EXCEPT ![root][i].name = name]
  /\ pc' = "changed"
  /\ UNCHANGED << attached, slot_names, slot_table, attrs, saveables_cache,
                  to_visit, bfs_sorted, path_to_root, trackable_objects,
                  node_ids, object_names, slot_variables, object_graph_proto,
                  named_saveable_objects, feed_additions, err, next_id,
                  factory_calls, feed_calls, saves, previous,
                  name_path, prefix >>

NextResave ==
  \/ Next
  \/ TrackDependency

SpecResave == InitResave /\ [][NextResave]_vars

-----------------------------------------------------------------------------
(* The dependency graph, as the properties speak of it *)

\* The edges that leave an object: its own dependencies and, for the root,
\* the attached ones after them
DependenciesOf(o) == IF o = root THEN deps[o] \o attached ELSE deps[o]

\* The objects within n hops of the root
RECURSIVE Within(_)
Within(n) ==
  IF n = 0 THEN {root}
  ELSE LET w == Within(n - 1)
       IN w \cup {e.ref : e \in UNION {Range(DependenciesOf(o)) : o \in w}}

Reachable == Within(Cardinality(Objs))

\* The least number of hops from the root to a reachable object
Distance(o) == CHOOSE n \in 0..Cardinality(Objs) :
                 o \in Within(n) /\ \A m \in 0..(n - 1) : o \notin Within(m)

\* The object the i-th hop of a path leaves
SourceOf(path, i) == IF i = 1 THEN root ELSE path[i - 1].ref

\* path is a path of the graph from the root to o
IsPathTo(path, o) ==
  /\ \A i \in 1..Len(path) : path[i] \in Range(DependenciesOf(SourceOf(path, i)))
  /\ o = SourceOf(path, Len(path) + 1)

PositionIn(seq, x) == CHOOSE i \in 1..Len(seq) : seq[i] = x

\* The traversal has returned (and its results are still held)
Traversed == pc \notin {"init"} /\ to_visit = <<>>

\* The objects with an edge to o
ParentsOf(o) ==
  {m \in Reachable : \E e \in Range(DependenciesOf(m)) : e.ref = o}

\* C2: when _breadth_first_traversal has returned, every object reachable
\* from the root has a recorded path; the path is a path of the dependency
\* graph from the root to the object and no path to it has fewer hops; the
\* root's path is empty; and the path of any other object is the path of
\* the earliest-dequeued object with an edge to it, followed by the first
\* edge to it that this parent lists.
C2_ShortestFirstDiscoveredPath ==
  Traversed =>
    /\ DOMAIN path_to_root = Reachable
    /\ Range(bfs_sorted) = Reachable
    /\ path_to_root[root] = <<>>
    /\ \A o \in Reachable :
         /\ IsPathTo(path_to_root[o], o)
         /\ Len(path_to_root[o]) = Distance(o)
    /\ \A o \in Reachable \ {root} :
         LET parent == CHOOSE m \in ParentsOf(o) :
                         \A m2 \in ParentsOf(o) :
                            PositionIn(bfs_sorted, m) <= PositionIn(bfs_sorted, m2)
             listed == DependenciesOf(parent)
             first == CHOOSE i \in 1..Len(listed) :
                        /\ listed[i].ref = o
                        /\ \A j \in 1..(i - 1) : listed[j].ref # o
         IN path_to_root[o] = path_to_root[parent] \o <<listed[first]>>

\* A diamond was traversed: an object two hops away with edges from two
\* objects one hop away.
C2_Witness ==
  /\ pc = "done"
  /\ \E o \in Reachable :
       /\ Distance(o) = 2
       /\ \E m1, m2 \in ParentsOf(o) :
            m1 # m2 /\ Distance(m1) = 1 /\ Distance(m2) = 1

\* C9: the proto has one node per object, in the order of the ids; the
\* node of an object has one child per edge the object lists, in that
\* order, with the edge's local name and the id of its target, which is the
\* position of the target among the objects; the nodes of slot variables
\* have no children.
C9_ChildrenMirrorDependencies ==
  pc \in {"filled", "done"} =>
    /\ Len(object_graph_proto) = Len(trackable_objects)
    /\ \A i \in 1..Len(trackable_objects) :
         LET listed == DependenciesOf(trackable_objects[i])
             children == object_graph_proto[i].children
         IN /\ node_ids[trackable_objects[i]] = i - 1
            /\ Len(children) = Len(listed)
            /\ \A j \in 1..Len(listed) :
                 /\ children[j].local_name = listed[j].name
                 /\ children[j].node_id \in 0..(Len(trackable_objects) - 1)
                 /\ trackable_objects[children[j].node_id + 1] = listed[j].ref
            /\ (i > Len(bfs_sorted) => children = <<>>)

\* A graph was serialized in which an object has edges from two objects, an
\* object lists the same target twice, and there is a slot variable.
C9_Witness ==
  /\ pc = "done"
  /\ \E o \in Reachable : Cardinality(ParentsOf(o)) >= 2
  /\ \E i \in 1..Len(object_graph_proto) :
       \E j, k \in 1..Len(object_graph_proto[i].children) :
          /\ j < k
          /\ object_graph_proto[i].children[j].node_id =
               object_graph_proto[i].children[k].node_id
  /\ Len(trackable_objects) > Len(bfs_sorted)

\* C10: list_dependencies gives, for the root, its own dependencies and
\* then the attached ones, and for any other object its own dependencies;
\* no step of a serialization changes any object's own dependencies; and in
\* the result the attached dependencies are children of the root after its
\* own, their targets are numbered, and a target no own edge of the root
\* reaches is named by the attached edge alone.
C10_AttachedDependencies ==
  [][ /\ list_dependencies(deps, root).ret = deps[root] \o attached
      /\ \A o \in Objs \ {root} : list_dependencies(deps, o).ret = deps[o]
      /\ deps' = deps
      /\ (pc' = "done" =>
            \A k \in 1..Len(attached) :
               LET e == attached[k]
                   child == object_graph_proto'[1].children[Len(deps[root]) + k]
               IN /\ Len(object_graph_proto'[1].children) =
                       Len(deps[root]) + Len(attached)
                  /\ e.ref \in Range(bfs_sorted')
                  /\ child.local_name = e.name
                  /\ child.node_id = node_ids'[e.ref]
                  /\ (e.ref # root /\ (\A d \in Range(deps[root]) : d.ref # e.ref)
                        => /\ path_to_root'[e.ref] = <<e>>
                           /\ object_names'[e.ref] = escape_local_name(e.name)))
    ]_vars

\* A serialization with an attached dependency returned; the root has
\* dependencies of its own and the attached object is reached by no other
\* edge.
C10_Witness ==
  /\ pc = "done"
  /\ attached # <<>>
  /\ deps[root] # <<>>
  /\ \A o \in Objs : \A d \in Range(deps[o]) : d.ref # attached[1].ref

-----------------------------------------------------------------------------
(* Slot variables, as the properties speak of them *)

\* The objects are numbered and named (and the results are still held)
Numbered == pc \in {"named", "filled", "done"}

\* C1: when objects_ids_and_slot_variables_and_paths has returned, node_ids
\* maps exactly the returned objects, no object is listed twice and the id
\* of every object, found by the traversal or appended as a slot variable,
\* is its position in the list, from 0; and the position-equals-id checks
\* of _fill_object_graph_proto and _add_attributes_to_object_graph never
\* fail.
C1_NodeIdsArePositions ==
  /\ err # "NodeIdAssertion"
  /\ Numbered =>
       /\ DOMAIN node_ids = Range(trackable_objects)
       /\ \A i \in 1..Len(trackable_objects) :
            node_ids[trackable_objects[i]] = i - 1
       /\ \A i, j \in 1..Len(trackable_objects) :
            i # j => trackable_objects[i] # trackable_objects[j]
       /\ {node_ids[o] : o \in DOMAIN node_ids} =
            0..(Len(trackable_objects) - 1)
       /\ SubSeq(trackable_objects, 1, Len(bfs_sorted)) = bfs_sorted

\* A serialization returned two objects found by the traversal and a slot
\* variable appended after them.
C1_Witness ==
  /\ pc = "done"
  /\ Len(bfs_sorted) >= 2
  /\ Len(trackable_objects) > Len(bfs_sorted)

\* The get_slot calls that return a slot variable, were no error raised: the
\* positions of the optimizer, of the slot name and of the original variable
SlotHits ==
  {h \in (1..Len(bfs_sorted)) \X (1..Len(SlotNameSeq)) \X (1..Len(bfs_sorted)) :
     /\ bfs_sorted[h[1]] \in DOMAIN slot_names
     /\ h[2] <= Len(slot_names[bfs_sorted[h[1]]])
     /\ <<bfs_sorted[h[1]], bfs_sorted[h[3]],
          slot_names[bfs_sorted[h[1]]][h[2]]>> \in DOMAIN slot_table}

SlotOf(h) ==
  slot_table[<<bfs_sorted[h[1]], bfs_sorted[h[3]],
               slot_names[bfs_sorted[h[1]]][h[2]]>>]

\* g comes before h in the order of the three loops
Before(g, h) ==
  \/ g[1] < h[1]
  \/ g[1] = h[1] /\ g[2] < h[2]
  \/ g[1] = h[1] /\ g[2] = h[2] /\ g[3] < h[3]

HasDependencies(h) == deps[SlotOf(h)] # <<>>

\* The slot variable is a node already: found by the traversal, or
\* returned by an earlier call
Registered(h) ==
  \/ SlotOf(h) \in Range(bfs_sorted)
  \/ \E g \in SlotHits : Before(g, h) /\ SlotOf(g) = SlotOf(h)

Rejected(h) == HasDependencies(h) \/ Registered(h)

\* C6: when get_slot returns a slot variable that has dependencies, the
\* serialization fails with the unsupported-slot-dependency error; when it
\* returns one that has none but is a node already (found by the traversal
\* or registered earlier in the pass) it fails with the illegal-aliasing
\* error; in both cases nothing is returned: no object list, no ids, no
\* proto.  (The first such call ends the pass, so it decides the error.)
C6_SlotVariableRejected ==
  (Traversed /\ pc # "bfs") =>
    IF \E h \in SlotHits : Rejected(h)
    THEN LET h == CHOOSE h \in SlotHits :
                    Rejected(h) /\ \A g \in SlotHits : Rejected(g) => ~Before(g, h)
         IN /\ pc = "error"
            /\ err = IF HasDependencies(h) THEN "UnsupportedSlotDependency"
                     ELSE "IllegalSlotAliasing"
            /\ trackable_objects = <<>> /\ node_ids = <<>>
            /\ object_graph_proto = <<>> /\ named_saveable_objects = <<>>
    ELSE err \notin {"UnsupportedSlotDependency", "IllegalSlotAliasing"}

\* The pass failed on a slot variable without dependencies that the
\* traversal had not found: it was registered for an earlier pair.
C6_Witness ==
  /\ pc = "error" /\ err = "IllegalSlotAliasing"
  /\ \E h \in SlotHits :
       /\ Rejected(h) /\ \A g \in SlotHits : Rejected(g) => ~Before(g, h)
       /\ SlotOf(h) \notin Range(bfs_sorted)

\* The pass failed on a slot variable that has dependencies and is a node
\* found by the traversal as well.
C6_WitnessDependencies ==
  /\ pc = "error" /\ err = "UnsupportedSlotDependency"
  /\ \E h \in SlotHits : HasDependencies(h) /\ SlotOf(h) \in Range(bfs_sorted)

SlotMarker ==
  <<"/", ".", "O", "P", "T", "I", "M", "I", "Z", "E", "R", "_", "S", "L", "O",
    "T", "/">>

-----------------------------------------------------------------------------
(* _object_prefix_from_path on its own *)

\* the largest size of a path: its names and their characters, counted
MaxPathSize == 4

Alphabet == {".", "/", "S", "A"}

NamesUpTo(n) == UNION {[1..k -> Alphabet] : k \in 0..n}

\* The sequences of local names of size w at most
RECURSIVE NamePaths(_)
NamePaths(w) ==
  {<<>>} \cup
  (IF w = 0 THEN {}
   ELSE UNION {{<<name>> \o rest : rest \in NamePaths(w - 1 - Len(name))} :
                 name \in NamesUpTo(w - 1)})

PathOf(names) == [i \in 1..Len(names) |-> TrackableReference(names[i], "a")]

PathInputs == {PathOf(names) : names \in NamePaths(MaxPathSize)}

InitPrefix ==
  /\ name_path \in PathInputs
  /\ prefix = <<>>
  /\ pc = "path"
  /\ deps = [o \in Objs |-> <<>>]
  /\ attached = <<>>
  /\ slot_names = <<>>
  /\ slot_table = <<>>
  /\ attrs = [o \in Objs |-> <<>>]
  /\ saveables_cache = NoCache
  /\ saves = 0
  /\ NotCalled

\* _object_prefix_from_path(path_to_root), lines 66-69
ObjectPrefixFromPath ==
  /\ pc = "path"
  /\ pc' = "prefixed"
  /\ prefix' = object_prefix_from_path(name_path)
  /\ UNCHANGED << deps, attached, slot_names, slot_table, attrs,
                  saveables_cache, to_visit, bfs_sorted, path_to_root,
                  trackable_objects, node_ids, object_names, slot_variables,
                  object_graph_proto, named_saveable_objects, feed_additions,
                  err, next_id, factory_calls, feed_calls, saves, previous,
                  name_path >>

NextPrefix == ObjectPrefixFromPath

SpecPrefix == InitPrefix /\ [][NextPrefix]_vars

\* The number of separators in a string
Separators(s) == Cardinality({i \in 1..Len(s) : s[i] = "/"})

\* The segments of a string between its separators
SegmentsOf(s) ==
  LET cuts == <<0>> \o SelectSeq([i \in 1..Len(s) |-> i], LAMBDA i : s[i] = "/")
                    \o <<Len(s) + 1>>
  IN [k \in 1..(Len(cuts) - 1) |-> SubSeq(s, cuts[k] + 1, cuts[k + 1] - 1)]

\* The segment starts as the marker tokens do: the escape character and then
\* a character other than the two that follow it in an escaped name
StartsAsMarker(seg) ==
  \E marker \in {OPTIMIZER_SLOTS_NAME, OBJECT_ATTRIBUTES_NAME} :
     Len(seg) >= 2 /\ SubSeq(seg, 1, 2) = SubSeq(marker, 1, 2)

\* The local names leave the segmentation alone: the prefix has one segment
\* per name, the escaped name, and none starts as a marker token does.
SegmentationKept ==
  /\ Separators(prefix) = IF name_path = <<>> THEN 0 ELSE Len(name_path) - 1
  /\ name_path # <<>> =>
       SegmentsOf(prefix) =
         [i \in 1..Len(name_path) |-> escape_local_name(name_path[i].name)]
  /\ \A i \in 1..Len(SegmentsOf(prefix)) : ~StartsAsMarker(SegmentsOf(prefix)[i])

\* C3: any sequence of local names that differs from the one given has a
\* different prefix, and the local names leave the segmentation of the
\* prefix alone (no separator and no marker token comes from a name).
C3_DistinctPathsDistinctPrefixes ==
  pc = "prefixed" =>
    /\ \A other \in PathInputs :
         other # name_path => object_prefix_from_path(other) # prefix
    /\ SegmentationKept

\* C3 but for the empty path and the path of one empty name, which both
\* have the empty prefix.
C3_DistinctButForEmptyName ==
  pc = "prefixed" =>
    /\ \A other \in PathInputs :
         (other # name_path
            /\ {other, name_path} # {<<>>, PathOf(<< <<>> >>)})
         => object_prefix_from_path(other) # prefix
    /\ SegmentationKept

-----------------------------------------------------------------------------
(* The cache and the feeds, as the properties speak of them *)

RECURSIVE Concat(_)
Concat(seqs) == IF seqs = <<>> THEN <<>> ELSE Head(seqs) \o Concat(Tail(seqs))

\* A call returned, a call had returned before it, and the view has a cache
ReturnedAgain == pc = "done" /\ previous.done /\ ~saveables_cache.is_none

\* The factory was called in this pass for the attribute of the object
Rebuilt(trackable, name) ==
  \E c \in Range(factory_calls) : c.trackable = trackable /\ c.name = name

\* C4: when a call has returned with a cache and the key of an attribute is
\* then no longer the key its cached SaveableObjects were built for, the next
\* call calls the factory with the new key and replaces the cached entry by
\* what the factory built; the attributes whose key is what their cached
\* SaveableObjects were built for are not rebuilt.
C4_ChangedKeysRebuilt ==
  ReturnedAgain =>
    \A i \in 1..Len(trackable_objects) :
      \A j \in 1..Len(object_graph_proto[i].attributes) :
        LET t == trackable_objects[i]
            a == object_graph_proto[i].attributes[j]
            before == previous.saveables_cache.dict
        IN (t \in DOMAIN before /\ a.name \in DOMAIN before[t]) =>
             LET old == before[t][a.name]
                 now == saveables_cache.dict[t][a.name]
             IN IF \E k \in 1..Len(old) : old[k].key # a.checkpoint_key
                THEN /\ \E c \in Range(factory_calls) :
                          /\ c.trackable = t /\ c.name = a.name
                          /\ c.key = a.checkpoint_key
                     /\ \A k \in 1..Len(now) :
                          /\ now[k].key = a.checkpoint_key
                          /\ now[k].id >= previous.next_id
                ELSE ~Rebuilt(t, a.name) /\ now = old

\* What the code does instead: the cached SaveableObjects of an attribute
\* are replaced exactly when the name of one of them does not contain the
\* attribute's key.
C4_RebuiltWhenKeyNotInName ==
  ReturnedAgain =>
    \A i \in 1..Len(trackable_objects) :
      \A j \in 1..Len(object_graph_proto[i].attributes) :
        LET t == trackable_objects[i]
            a == object_graph_proto[i].attributes[j]
            before == previous.saveables_cache.dict
        IN (t \in DOMAIN before /\ a.name \in DOMAIN before[t]) =>
             LET old == before[t][a.name]
                 now == saveables_cache.dict[t][a.name]
             IN IF \E k \in 1..Len(old) :
                     ~Contains(a.checkpoint_key, old[k].name)
                THEN /\ Rebuilt(t, a.name)
                     /\ \A k \in 1..Len(now) :
                          /\ now[k].key = a.checkpoint_key
                          /\ now[k].id >= previous.next_id
                ELSE ~Rebuilt(t, a.name) /\ now = old

\* A second call returned after the path of an object with a cached
\* attribute had changed.
C4_Witness ==
  /\ ReturnedAgain /\ ~previous.unchanged
  /\ \E i \in 1..Len(trackable_objects) :
       \E j \in 1..Len(object_graph_proto[i].attributes) :
          LET t == trackable_objects[i]
              a == object_graph_proto[i].attributes[j]
              before == previous.saveables_cache.dict
          IN /\ t \in DOMAIN before /\ a.name \in DOMAIN before[t]
             /\ \E k \in 1..Len(before[t][a.name]) :
                  before[t][a.name][k].key # a.checkpoint_key

\* C5: a call on a view with a cache, made after a call that returned and
\* with no change to the graph in between, calls no factory and returns the
\* SaveableObjects the call before it returned, the same objects in the
\* same order, which is the order of the nodes and then of their attributes;
\* the cache is left as it was.
C5_SecondRunReusesAdapters ==
  (ReturnedAgain /\ previous.unchanged) =>
    /\ factory_calls = <<>>
    /\ next_id = previous.next_id
    /\ saveables_cache = previous.saveables_cache
    /\ named_saveable_objects = previous.named_saveable_objects
    /\ named_saveable_objects =
         Concat([i \in 1..Len(trackable_objects) |->
           Concat([j \in 1..Len(object_graph_proto[i].attributes) |->
             saveables_cache.dict[trackable_objects[i]]
               [object_graph_proto[i].attributes[j].name]])])

\* The second of two calls on an unchanged graph returned SaveableObjects of
\* three objects, one of them a PythonStateSaveable.
C5_Witness ==
  /\ ReturnedAgain /\ previous.unchanged
  /\ Len(trackable_objects) = 3
  /\ \A i \in 1..3 : object_graph_proto[i].attributes # <<>>
  /\ \E k \in 1..Len(named_saveable_objects) :
       named_saveable_objects[k].python_state
  /\ Len(named_saveable_objects) >= 4

\* The PythonStateSaveables the factories of the serialized objects build:
\* the object, the attribute and the place in what the factory builds
Feeders ==
  {f \in Range(trackable_objects) \X (1..MaxAttrs + 1) \X (1..2) :
     /\ f[2] <= Len(attrs[f[1]])
     /\ f[3] <= Len(attrs[f[1]][f[2]].factory)
     /\ attrs[f[1]][f[2]].factory[f[3]].python_state}

FeedOf(f) == attrs[f[1]][f[2]].factory[f[3]].feed

\* C7: when two SaveableObjects report a feed addition under the same key
\* in one pass, the pass ends with the feed-key-collision error and returns
\* nothing: no SaveableObjects, no feed map, no proto.  A pass of a view
\* with a cache that returns has called feed_dict_additions on each
\* PythonStateSaveable, no two of them shared a key, and the feed map it
\* returns is the union of their feed additions; a view without a cache
\* returns no feed map.
C7_FeedKeyCollision ==
  /\ \A m, n \in 1..Len(feed_calls) :
       (m # n /\ feed_calls[m].keys \cap feed_calls[n].keys # {}) =>
          /\ pc = "error" /\ err = "FeedKeyCollision"
          /\ named_saveable_objects = <<>>
          /\ feed_additions = NoCache
          /\ object_graph_proto = <<>>
  /\ (pc = "done" /\ ~saveables_cache.is_none) =>
       /\ ~feed_additions.is_none
       /\ Len(feed_calls) = Cardinality(Feeders)
       /\ \A f, g \in Feeders :
            f # g => DOMAIN FeedOf(f) \cap DOMAIN FeedOf(g) = {}
       /\ DOMAIN feed_additions.dict = UNION {DOMAIN FeedOf(f) : f \in Feeders}
       /\ \A f \in Feeders : \A k \in DOMAIN FeedOf(f) :
            feed_additions.dict[k] = FeedOf(f)[k]
  /\ (pc = "done" /\ saveables_cache.is_none) =>
       feed_additions.is_none /\ feed_calls = <<>>

\* Attributes of two different objects reported a feed addition under the
\* same key and the pass failed.
C7_Witness ==
  /\ pc = "error" /\ err = "FeedKeyCollision"
  /\ \E m, n \in 1..Len(feed_calls) :
       /\ feed_calls[m].trackable # feed_calls[n].trackable
       /\ feed_calls[m].keys \cap feed_calls[n].keys # {}

\* A pass with a cache returned the feed additions of two objects.
C7_WitnessUnion ==
  /\ pc = "done" /\ ~saveables_cache.is_none
  /\ Cardinality(Feeders) = 2
  /\ Cardinality(DOMAIN feed_additions.dict) = 2

-----------------------------------------------------------------------------
(* The traversal alone, on graphs with cycles, self-loops, diamonds and
   repeated edges *)

\* the largest number of dependency edges of a traversed graph
MaxTraversalEdges == 4

\* Every graph of up to MaxTraversalEdges edges that leave "r", "a" or "b"
\* for any of the four objects
InitTraversal ==
  /\ deps \in Graphs(MaxTraversalEdges, {"r", "a", "b"})
  /\ attached = <<>>
  /\ slot_names = <<>>
  /\ slot_table = <<>>
  /\ attrs = PlainAttrs
  /\ saveables_cache = NoCache
  /\ saves = 1
  /\ pc = "init"
  /\ NotCalled /\ NoPaths

NextTraversal ==
  \/ BreadthFirstTraversalStart
  \/ BreadthFirstTraversalStep

\* The interpreter runs the while loop on: a turn that can be taken is taken
SpecTraversal ==
  InitTraversal /\ [][NextTraversal]_vars /\ WF_vars(BreadthFirstTraversalStep)

\* _breadth_first_traversal is at its return statement
Returned == pc = "bfs" /\ to_visit = <<>>

NoDuplicates(seq) ==
  \A i, j \in 1..Len(seq) : seq[i] = seq[j] => i = j

\* The objects dequeued so far and then the queue: every object that was
\* ever enqueued, in the order of enqueueing
Enqueued == bfs_sorted \o to_visit

EnqueuedAtMostOnce ==
  pc = "bfs" =>
    /\ NoDuplicates(Enqueued)
    /\ Enqueued[1] = root
    /\ Range(Enqueued) = DOMAIN path_to_root
    /\ Range(Enqueued) \subseteq Reachable

ReturnsTheReachable ==
  Returned =>
    /\ Range(bfs_sorted) = Reachable
    /\ Len(bfs_sorted) = Cardinality(Reachable)
    /\ bfs_sorted[1] = root

\* C11: on every dependency graph, with cycles, self-loops, diamonds and
\* repeated edges, no object is enqueued twice and only reachable objects
\* are enqueued, the root first; the traversal, once started, reaches its
\* return statement; and the list it returns holds every object reachable
\* from the root once, no other object, and the root at position 0.
C11_TraversalTerminates ==
  /\ [](EnqueuedAtMostOnce /\ ReturnsTheReachable)
  /\ (pc = "bfs") ~> Returned

\* The traversal returned on a graph where the root has two edges to "a",
\* "a" has an edge to itself and an edge back to the root.
C11_Witness ==
  /\ Returned
  /\ Cardinality({i \in 1..Len(deps[root]) : deps[root][i].ref = "a"}) = 2
  /\ \E e \in Range(deps["a"]) : e.ref = "a"
  /\ \E e \in Range(deps["a"]) : e.ref = root
  /\ bfs_sorted = <<root, "a">>

\* The traversal returned on a diamond: "c" is a dependency of both "a" and
\* "b", which are dependencies of the root.
C11_WitnessDiamond ==
  /\ Returned
  /\ {e.ref : e \in Range(deps[root])} = {"a", "b"}
  /\ \E e \in Range(deps["a"]) : e.ref = "c"
  /\ \E e \in Range(deps["b"]) : e.ref = "c"
  /\ bfs_sorted = <<root, "a", "b", "c">>

=============================================================================
